---------------------------- MODULE Spec2Model ----------------------------
(***************************************************************************)
(* Model of the strategy execution path of chill_pm:                      *)
(*   handlers.rs  execute            (dispatch of the two legs)           *)
(*   processors.rs process_binance_place_order / process_eisen_swaps      *)
(*   utils/parser.rs extract_binance_place_order / extract_eisen_swaps    *)
(*   executor/binance.rs place_binance_order, TryFrom<Status>             *)
(*   executor/eisen.rs quote_and_send_tx, get_quote, get_tx_data, send_tx *)
(* Text is a tuple of one-character strings, so that case conversion,     *)
(* concatenation and decimal parsing are computed and not assumed.        *)
(***************************************************************************)
EXTENDS Integers, Sequences, FiniteSets, TLC

\* ------------------------------------------------------------------ bounds
\* a strategy holds at most this many items (orders plus swaps)
MaxItems == 3

\* ------------------------------------------------------------ Option<T>
None == [some |-> FALSE]
Some(x) == [some |-> TRUE, val |-> x]

\* ------------------------------------------------------------------ text
LowerAlphabet ==
    << "a","b","c","d","e","f","g","h","i","j","k","l","m",
       "n","o","p","q","r","s","t","u","v","w","x","y","z" >>
UpperAlphabet ==
    << "A","B","C","D","E","F","G","H","I","J","K","L","M",
       "N","O","P","Q","R","S","T","U","V","W","X","Y","Z" >>
Digits == << "0","1","2","3","4","5","6","7","8","9" >>

IsLower(c) == \E i \in 1..Len(LowerAlphabet) : LowerAlphabet[i] = c
IsUpper(c) == \E i \in 1..Len(UpperAlphabet) : UpperAlphabet[i] = c
IsDigit(c) == \E i \in 1..Len(Digits) : Digits[i] = c
DigitVal(c) == (CHOOSE i \in 1..Len(Digits) : Digits[i] = c) - 1

UpperChar(c) ==
    IF IsLower(c)
    THEN UpperAlphabet[CHOOSE i \in 1..Len(LowerAlphabet) : LowerAlphabet[i] = c]
    ELSE c
LowerChar(c) ==
    IF IsUpper(c)
    THEN LowerAlphabet[CHOOSE i \in 1..Len(UpperAlphabet) : UpperAlphabet[i] = c]
    ELSE c

\* str::to_uppercase / str::to_lowercase on ASCII text
to_uppercase(t) == [i \in 1..Len(t) |-> UpperChar(t[i])]
to_lowercase(t) == [i \in 1..Len(t) |-> LowerChar(t[i])]

USDT == << "U","S","D","T" >>
BUY == << "B","U","Y" >>
SELL == << "S","E","L","L" >>
MARKET == << "M","A","R","K","E","T" >>
LIMIT == << "L","I","M","I","T" >>

\* Option<&str>::unwrap_or_default / unwrap_or
unwrap_or(o, d) == IF o.some THEN o.val ELSE d

\* --------------------------------------------------------------- Decimal
\* rust_decimal::Decimal as sign, unscaled mantissa and scale
RECURSIVE DigitsValue(_)
DigitsValue(ds) ==
    IF Len(ds) = 0 THEN 0
    ELSE 10 * DigitsValue(SubSeq(ds, 1, Len(ds) - 1)) + DigitVal(ds[Len(ds)])

\* Decimal::from_str_exact(text).ok(): optional sign, digits, at most one point
from_str_exact(t) ==
    IF Len(t) = 0 THEN None
    ELSE
      LET neg  == t[1] = "-"
          body == IF t[1] \in {"-", "+"} THEN Tail(t) ELSE t
          dots == {i \in 1..Len(body) : body[i] = "."}
          ds   == SelectSeq(body, IsDigit)
      IN  IF /\ Cardinality(dots) <= 1
             /\ Len(ds) > 0
             /\ \A i \in 1..Len(body) : i \in dots \/ IsDigit(body[i])
          THEN Some([neg |-> neg,
                     m   |-> DigitsValue(ds),
                     e   |-> IF dots = {} THEN 0
                             ELSE Len(body) - (CHOOSE i \in dots : TRUE)])
          ELSE None


\* ------------------------------------------------------- strategy inputs
T_ETH == << "E","T","H" >>
T_eth == << "e","t","h" >>
T_Btc == << "B","t","c" >>
T_usdc == << "u","s","d","c" >>
T_USDC == << "U","S","D","C" >>
T_doge == << "d","o","g","e" >>
T_sell == << "s","e","l","l" >>
T_buy == << "b","u","y" >>
T_hold == << "h","o","l","d" >>
T_0_5 == << "0",".","5" >>
T_4_1 == << "4",".","1" >>
T_1_1 == << "1",".","1" >>
T_1_2345 == << "1",".","2","3","4","5" >>
T_0 == << "0" >>
T_neg1 == << "-","1" >>
T_abc == << "a","b","c" >>
T_2000 == << "2","0","0","0" >>
T_limit == << "l","i","m","i","t" >>
T_ioc == << "i","o","c" >>

\* one element of exchanges[].binance.orders[] of the strategy JSON; a field
\* that is absent or is not a JSON string (bool for the last two) is None
OrderJson(token, side, amount, price, type, tif, ro, cp) ==
    [token |-> token, side |-> side, amount |-> amount, price |-> price,
     type |-> type, timeInForce |-> tif, reduceOnly |-> ro, closePosition |-> cp]

OrderInputs ==
    { OrderJson(Some(T_ETH), Some(T_sell), Some(T_0_5), None, None, None, None, None),
      OrderJson(Some(T_eth), Some(T_buy), Some(T_1_2345), Some(T_2000),
                Some(T_limit), Some(T_ioc), Some(TRUE), Some(TRUE)),
      OrderJson(Some(T_ETH), Some(T_buy), Some(T_0), None, None, None, None, None),
      OrderJson(Some(T_Btc), Some(T_sell), Some(T_neg1), None, None, None, None, None),
      OrderJson(Some(T_ETH), Some(T_buy), Some(T_abc), None, None, None, None, None),
      OrderJson(Some(T_ETH), Some(T_buy), None, None, None, None, None, None),
      OrderJson(Some(T_ETH), Some(T_hold), Some(T_1_1), None, None, None, None, None) }

SeqsUpTo(S, n) == UNION { [1..k -> S] : k \in 0..n }

\* ------------------------------------------------ executor/binance.rs types
Status ==
    { "New", "PartiallyFilled", "Filled", "Canceled", "Expired",
      "NewInsurance", "NewAdl" }
OrderStatus == { "Pending", "Finished", "Unknown" }

\* mutant: the liquidation statuses are not recognised
TryFromStatus_NoLiquidation(status) ==
    CASE status \in {"New", "PartiallyFilled"} -> [ok |-> TRUE, val |-> "Pending"]
      [] status \in {"Canceled", "Expired", "Filled"} -> [ok |-> TRUE, val |-> "Finished"]
      [] OTHER -> [ok |-> TRUE, val |-> "Unknown"]

\* impl TryFrom<Status> for OrderStatus
TryFromStatus(status) ==
    CASE status \in {"New", "PartiallyFilled"} -> [ok |-> TRUE, val |-> "Pending"]
      [] status \in {"Canceled", "Expired", "Filled"} -> [ok |-> TRUE, val |-> "Finished"]
      [] status \in {"NewAdl", "NewInsurance"} -> [ok |-> TRUE, val |-> "Pending"]

\* ------------------------------------------------------ utils/parser.rs
\* side_str of one order: upper-cased "side", "" when absent
SideStr(o) == to_uppercase(unwrap_or(o.side, << >>))

\* the match on side_str: any other side is skipped (continue)
HasValidSide(o) == SideStr(o) = BUY \/ SideStr(o) = SELL

\* the PlaceOrder pushed for one order with a valid side
ToPlaceOrder(o) ==
    [symbol |-> unwrap_or(o.token, << >>) \o USDT,
     side |-> IF SideStr(o) = BUY THEN "Buy" ELSE "Sell",
     order_type |->
        IF to_uppercase(unwrap_or(o.type, MARKET)) = LIMIT THEN "Limit" ELSE "Market",
     reduce_only |-> o.reduceOnly,
     quantity |-> IF o.amount.some THEN from_str_exact(o.amount.val) ELSE None,
     price |-> IF o.price.some THEN from_str_exact(o.price.val) ELSE None,
     stop_price |-> None,
     close_position |-> o.closePosition,
     time_in_force |->
        IF o.timeInForce.some
        THEN LET t == to_uppercase(o.timeInForce.val)
             IN  Some(IF t = << "I","O","C" >> THEN "Ioc"
                      ELSE IF t = << "F","O","K" >> THEN "Fok"
                      ELSE IF t = << "G","T","X" >> THEN "Gtx"
                      ELSE "Gtc")
        ELSE None]

extract_binance_place_order(orders) ==
    LET kept == SelectSeq(orders, HasValidSide)
    IN  [i \in 1..Len(kept) |-> ToPlaceOrder(kept[i])]

\* the decimal places the venue declares for the quantity and for the price
\* of an order on its USDT pairs
VenueQuantityPrecision == 3
VenuePricePrecision == 2

\* ----------------------------------------- executor/binance.rs place order
\* mutant: the stop price is tested before the limit price
OrderKindOf_StopFirst(price, stop_price) ==
    IF stop_price.some THEN << "StopMarket", None, Some(TRUE) >>
    ELSE IF price.some THEN << "Limit", Some("Gtc"), Some(FALSE) >>
    ELSE << "Market", None, Some(FALSE) >>

\* (order_type, time_in_force, close_position) from the prices present
OrderKindOf(price, stop_price) ==
    IF price.some THEN << "Limit", Some("Gtc"), Some(FALSE) >>
    ELSE IF stop_price.some THEN << "StopMarket", None, Some(TRUE) >>
    ELSE << "Market", None, Some(FALSE) >>

\* mutant: the symbol is used as written
PairSymbol_AsWritten(symbol) == symbol \o USDT

\* "{symbol.to_uppercase()}USDT"
PairSymbol(symbol) == to_uppercase(symbol) \o USDT

\* place_order_params
BuildPlaceOrder(symbol, side, quantity, price, stop_price) ==
    LET k == OrderKindOf(price, stop_price)
    IN  [symbol |-> PairSymbol(symbol),
         side |-> side,
         position_side |-> None,
         order_type |-> k[1],
         reduce_only |-> None,
         quantity |-> quantity,
         price |-> price,
         stop_price |-> stop_price,
         close_position |-> k[3],
         time_in_force |-> k[2]]

\* ------------------------------------------------- utils/sign BinanceKey
\* the fields of PlaceOrder in declaration order, with their names on the wire
\* (serde camelCase, order_type renamed to "type")
PlaceOrderFields ==
    << << "symbol", "symbol" >>,
       << "side", "side" >>,
       << "position_side", "positionSide" >>,
       << "order_type", "type" >>,
       << "reduce_only", "reduceOnly" >>,
       << "quantity", "quantity" >>,
       << "price", "price" >>,
       << "stop_price", "stopPrice" >>,
       << "close_position", "closePosition" >>,
       << "time_in_force", "timeInForce" >> >>

\* the fields of PlaceOrder that are not Options
RequiredFields == { "symbol", "side", "order_type" }

\* a field as an Option: a None field is left out of the query string
FieldValue(params, field) ==
    IF field \in RequiredFields THEN Some(params[field]) ELSE params[field]

\* mutant: the stop price is not part of the signed string
QueryPairs_NoStopPrice(params) ==
    LET present == SelectSeq(PlaceOrderFields,
                             LAMBDA f : /\ FieldValue(params, f[1]).some
                                        /\ f[1] # "stop_price")
    IN  [i \in 1..Len(present) |->
            << present[i][2], FieldValue(params, present[i][1]).val >>]

\* serde_urlencoded of the parameters: key=value pairs in declaration order
\* (a value stands for its text; distinct values have distinct texts)
QueryPairs(params) ==
    LET present == SelectSeq(PlaceOrderFields,
                             LAMBDA f : FieldValue(params, f[1]).some)
    IN  [i \in 1..Len(present) |->
            << present[i][2], FieldValue(params, present[i][1]).val >>]

\* the fixed receive window the signer appends
RecvWindow == 5000

\* HMAC-SHA256 of a message under a secret, as a term: two digests are equal
\* exactly when secret and message are
HmacSha256(secret, message) == [hmac |-> secret, over |-> message]

\* key.sign(params) at a clock reading: the signed string is the parameters,
\* the receive window and the timestamp; the signature comes last
sign(key, params, timestamp) ==
    IF ~key.valid THEN [ok |-> FALSE, err |-> "sign"]
    ELSE LET signing == QueryPairs(params)
                          \o << << "recvWindow", RecvWindow >>,
                                << "timestamp", timestamp >> >>
         IN  [ok |-> TRUE,
              query |-> signing,
              signature |-> HmacSha256(key.secret_key, signing)]

\* ------------------------------------------------------ DEX leg inputs
\* one element of exchanges[].eisen.swaps[] of the strategy JSON
SwapJson(token_in, token_out, amount) ==
    [token_in |-> token_in, token_out |-> token_out, amount |-> amount]

SwapInputs ==
    { SwapJson(Some(T_usdc), Some(T_eth), Some(T_1_1)),
      SwapJson(Some(T_USDC), Some(T_ETH), Some(T_4_1)),
      SwapJson(Some(T_usdc), Some(T_doge), Some(T_1_1)),
      SwapJson(Some(T_usdc), Some(T_eth), Some(T_neg1)),
      SwapJson(Some(T_eth), Some(T_usdc), Some(T_abc)),
      SwapJson(Some(T_usdc), Some(T_eth), None) }

\* ------------------------------------------------------------------ f64
\* A natural number of any size is a tuple of limbs in base 1000, least
\* significant first, without leading zero limbs; << >> is zero.
RECURSIVE BFromInt(_)
BFromInt(int) == IF int = 0 THEN << >> ELSE << int % 1000 >> \o BFromInt(int \div 1000)

RECURSIVE BToInt(_)
BToInt(limbs) ==
    IF limbs = << >> THEN 0 ELSE limbs[1] + 1000 * BToInt(Tail(limbs))

\* a * k + c for small k and c
RECURSIVE BMulAdd(_, _, _)
BMulAdd(a, k, c) ==
    IF a = << >>
    THEN BFromInt(c)
    ELSE LET v == a[1] * k + c
         IN  << v % 1000 >> \o BMulAdd(Tail(a), k, v \div 1000)

\* quotient and remainder of num by a small den
RECURSIVE BDivMod(_, _)
BDivMod(num, den) ==
    IF num = << >>
    THEN [q |-> << >>, r |-> 0]
    ELSE LET hi == BDivMod(Tail(num), den)
             w == hi.r * 1000 + num[1]
         IN  [q |-> IF hi.q = << >> /\ w < den THEN << >> ELSE << w \div den >> \o hi.q,
              r |-> w % den]

RECURSIVE BLessSameLen(_, _)
BLessSameLen(x, y) ==
    IF x = << >> THEN FALSE
    ELSE IF x[Len(x)] # y[Len(y)] THEN x[Len(x)] < y[Len(y)]
    ELSE BLessSameLen(SubSeq(x, 1, Len(x) - 1), SubSeq(y, 1, Len(y) - 1))

BLess(lhs, rhs) ==
    IF Len(lhs) # Len(rhs) THEN Len(lhs) < Len(rhs) ELSE BLessSameLen(lhs, rhs)

RECURSIVE Pow10(_)
Pow10(n) == IF n = 0 THEN 1 ELSE 10 * Pow10(n - 1)

RECURSIVE Pow2(_)
Pow2(i) == IF i = 0 THEN 1 ELSE 2 * Pow2(i - 1)

\* big shifted left by bits
RECURSIVE BShl(_, _)
BShl(big, bits) ==
    IF bits > 20 THEN BShl(BMulAdd(big, Pow2(20), 0), bits - 20)
    ELSE BMulAdd(big, Pow2(bits), 0)

\* big shifted right by bits
RECURSIVE BShr(_, _)
BShr(wide, nbits) ==
    IF nbits = 0 THEN wide
    ELSE IF nbits > 20 THEN BShr(BDivMod(wide, Pow2(20)).q, nbits - 20)
    ELSE BDivMod(wide, Pow2(nbits)).q

\* the bounds of a normalised 53-bit significand
Two52 == BShl(<< 1 >>, 52)
Two53 == BShl(<< 1 >>, 53)

\* dividend / divisor rounded to the nearest natural, ties to even (the
\* IEEE 754 default rounding)
BDivRound(dividend, divisor) ==
    LET dm == BDivMod(dividend, divisor)
        odd == dm.q # << >> /\ dm.q[1] % 2 = 1
    IN  IF 2 * dm.r > divisor \/ (2 * dm.r = divisor /\ odd)
        THEN BMulAdd(dm.q, 1, 1)
        ELSE dm.q

\* an f64 is [neg, mant, exp], of value (-1)^neg * mant * 2^exp, with a
\* significand of 53 bits; zero has the mantissa << >>
F64Zero == [neg |-> FALSE, mant |-> << >>, exp |-> 0]

\* the least s with nat * 2^s / scale >= 2^52, for 2^-75 <= nat / scale < 2^53
F64Scale(nat, scale) ==
    LET quot(s) == BDivMod(BShl(nat, s), scale).q
    IN  CHOOSE s \in 0..127 :
           /\ ~BLess(quot(s), Two52)
           /\ (BLess(quot(s), Two53) \/ s = 0)

\* str::parse::<f64> of a decimal text: the f64 nearest to m / 10^e
F64FromDecimal(dec) ==
    IF dec.m = 0 THEN [F64Zero EXCEPT !.neg = dec.neg]
    ELSE LET sh == F64Scale(BFromInt(dec.m), Pow10(dec.e))
         IN  [neg |-> dec.neg,
              mant |-> BDivRound(BShl(BFromInt(dec.m), sh), Pow10(dec.e)),
              exp |-> 0 - sh]

\* the least t with p / 2^t < 2^53, for p < 2^73
F64Excess(prod) ==
    CHOOSE t \in 0..20 :
       /\ BLess(BShr(prod, t), Two53)
       /\ (~BLess(BShr(prod, t), Two52) \/ t = 0)

\* x * 10.0_f64.powi(n): the exact product rounded to 53 bits (10^n is exact)
F64MulPow10(f, pow) ==
    LET p == BMulAdd(f.mant, Pow10(pow), 0)
        ex == F64Excess(p)
    IN  [neg |-> f.neg, mant |-> BDivRound(p, Pow2(ex)), exp |-> f.exp + ex]

\* f64::floor of a non-negative x, as a natural
F64Floor(g) ==
    IF g.exp >= 0 THEN BShl(g.mant, g.exp) ELSE BShr(g.mant, 0 - g.exp)

\* str::parse::<f64>().unwrap_or(0.0)
parse_f64_or_zero(t) ==
    LET d == from_str_exact(t)
    IN  IF d.some THEN F64FromDecimal(d.val) ELSE F64Zero

HasSwapFields(s) == s.token_in.some /\ s.token_out.some /\ s.amount.some

ToEisenSwap(s) ==
    [token_in |-> s.token_in.val,
     token_out |-> s.token_out.val,
     amount |-> parse_f64_or_zero(s.amount.val)]

\* ToEisenSwap tabulated over the inputs drawn, so that each text is parsed once
EisenSwapOf == [s \in { x \in SwapInputs : HasSwapFields(x) } |-> ToEisenSwap(s)]

extract_eisen_swaps(swaps) ==
    LET kept == SelectSeq(swaps, HasSwapFields)
    IN  [i \in 1..Len(kept) |-> EisenSwapOf[kept[i]]]

\* ------------------------------------------- executor/eisen.rs chain data
\* tokens of the metadata response (token decimals scaled down to stay in range)
MetadataTokens ==
    << [symbol |-> T_USDC, address |-> << "0","x","A","1" >>, decimals |-> 6],
       [symbol |-> << "E","t","h" >>, address |-> << "0","x","B","2" >>, decimals |-> 3] >>

\* ChainData.sym_to_addr_n_decimals as collected by get_chain_metadata
sym_to_addr_n_decimals ==
    LET keys == { to_lowercase(MetadataTokens[i].symbol) : i \in 1..Len(MetadataTokens) }
        last(k) == CHOOSE i \in 1..Len(MetadataTokens) :
                      /\ to_lowercase(MetadataTokens[i].symbol) = k
                      /\ \A j \in 1..Len(MetadataTokens) :
                            to_lowercase(MetadataTokens[j].symbol) = k => j <= i
    IN  [k \in keys |-> << to_lowercase(MetadataTokens[last(k)].address),
                           MetadataTokens[last(k)].decimals >>]

\* mutant: the table is indexed with the symbol as written
TableKey_Verbatim(token) == token

\* the key quote_and_send_tx indexes the table with
TableKey(token) == to_lowercase(token)

\* U256::from_str_radix((amount * 10^decimals).floor().to_string(), 10): the
\* text of a negative float (also of -0.0) starts with '-' and is no U256
AmountIn(amount, decimals) ==
    IF amount.neg THEN [ok |-> FALSE]
    ELSE [ok |-> TRUE, val |-> BToInt(F64Floor(F64MulPow10(amount, decimals)))]

Routes == { "r1", "r2" }
Txs == { "tx1" }

\* program constants
ProviderChainId == 8453
DefaultSlippageBps == 100

\* StatusCode::OK
HttpOk == 200

\* ------------------------------------------------------------------ state
VARIABLES
    strategy,     \* the parsed inner strategy JSON: [orders, swaps]
    hpc,          \* position of the execute handler (or of a direct caller)
    positions,    \* process_binance_place_order: the extracted orders
    ci,           \* ... index of the order being placed
    ppc,          \* position inside place_binance_order
    pargs,        \* its arguments
    preq,         \* its place_order_params
    presp,        \* the response of the venue it has received
    pret,         \* its return value
    swaps,        \* process_eisen_swaps: the extracted swaps
    si,           \* ... index of the swap being executed
    qpc,          \* position inside quote_and_send_tx
    q,            \* its locals
    qret,         \* its return value (or panic)
    net,          \* every network request issued so far, in order
    results,      \* per-item outcomes written to the log, in order
    cexLeg,       \* what process_binance_place_order returned
    dexLeg,       \* what process_eisen_swaps returned
    httpStatus,   \* status code of the response, 0 while there is none
    orderStatus,  \* OrderStatus a direct caller converts the venue status to
    binance_account_info,  \* execute: the Binance account, if it was retrieved
    base_chain_portfolio,  \* execute: the on-chain portfolio, if it was retrieved
    signed,       \* direct calls of key.sign so far: [key, params, timestamp, out]
    http_feature, \* whether the crate is built with the feature "http"
    error,        \* the error a direct caller classifies or flattens
    outcome       \* what the direct caller got back: [op, val]

vars ==
    << strategy, hpc, positions, ci, ppc, pargs, preq, presp, pret, swaps,
       si, qpc, q,
       qret, net, results, cexLeg, dexLeg, httpStatus, orderStatus,
       binance_account_info, base_chain_portfolio,
       signed, http_feature, error, outcome >>

cexVars == << positions, ci, cexLeg >>
placeVars == << ppc, pargs, preq, presp, pret >>
dexVars == << swaps, si, dexLeg >>
quoteVars == << qpc, q, qret >>
portfolioVars == << binance_account_info, base_chain_portfolio >>
libVars == << signed, http_feature, error, outcome >>

NoArgs == [symbol |-> << >>, side |-> "Buy", quantity |-> None, price |-> None,
           stop_price |-> None]
NoReq == [symbol |-> << >>]
NoResp == [status |-> 0, body |-> "none"]
NoRet == [ok |-> FALSE, err |-> "none"]
NoLocals == [from_token |-> << >>]
NoError == [type |-> "none"]
NoOutcome == [op |-> "none"]

\* the variables of the direct calls of library functions, unused
LibIdle ==
    signed = << >> /\ http_feature = FALSE /\ error = NoError /\ outcome = NoOutcome

Strategies ==
    UNION { { [orders |-> os, swaps |-> ss] :
                ss \in SeqsUpTo(SwapInputs, MaxItems - Len(os)) } :
            os \in SeqsUpTo(OrderInputs, MaxItems) }

NoStrategy == [orders |-> << >>, swaps |-> << >>]

Init ==
    /\ strategy = NoStrategy
    /\ hpc = "binance_portfolio"
    /\ positions = << >> /\ ci = 0 /\ cexLeg = "none"
    /\ ppc = "idle" /\ pargs = NoArgs /\ preq = NoReq /\ presp = NoResp /\ pret = NoRet
    /\ swaps = << >> /\ si = 0 /\ dexLeg = "none"
    /\ qpc = "idle" /\ q = NoLocals /\ qret = NoRet
    /\ net = << >> /\ results = << >>
    /\ httpStatus = 0
    /\ orderStatus = [ok |-> FALSE, val |-> "none"]
    /\ binance_account_info = None /\ base_chain_portfolio = None
    /\ LibIdle

\* ------------------------------------------------- place_binance_order
PlaceBuild ==
    /\ ppc = "build"
    /\ preq' = BuildPlaceOrder(pargs.symbol, pargs.side, pargs.quantity,
                               pargs.price, pargs.stop_price)
    /\ ppc' = "sign"
    /\ UNCHANGED << strategy, portfolioVars, libVars, hpc, cexVars, pargs, presp, pret, dexVars, quoteVars, net,
                    results, httpStatus, orderStatus >>

\* mutant: the request goes out before the result of signing is looked at
PlaceSign_SendFirst ==
    /\ ppc = "sign"
    /\ \E signing_ok \in BOOLEAN :
          IF signing_ok
          THEN ppc' = "send" /\ pret' = pret /\ net' = net
          ELSE /\ ppc' = "ret" /\ pret' = [ok |-> FALSE, err |-> "sign"]
               /\ net' = Append(net, [leg |-> "cex", item |-> ci, stage |-> "order",
                                      req |-> preq, ok |-> FALSE])
    /\ UNCHANGED << strategy, portfolioVars, libVars, hpc, cexVars, pargs, preq, presp,
                    dexVars, quoteVars, results, httpStatus, orderStatus >>

\* key.sign(place_order_params).map_err(..)?: an Err returns at once
PlaceSign ==
    /\ ppc = "sign"
    /\ \E signing_ok \in BOOLEAN :
          IF signing_ok
          THEN ppc' = "send" /\ pret' = pret
          ELSE ppc' = "ret" /\ pret' = [ok |-> FALSE, err |-> "sign"]
    /\ UNCHANGED << strategy, portfolioVars, libVars, hpc, cexVars, pargs, preq, presp, dexVars, quoteVars, net,
                    results, httpStatus, orderStatus >>

\* the outcomes of building the header, sending, and reading the response
SendOutcomes == { "bad_api_key", "transport", "non2xx", "bad_json" } \cup Status

\* the responses of the venue that are not a success: status and raw body
ErrorResponses ==
    { [status |-> 400, body |-> "{code:-2019,msg:Margin is insufficient.}"],
      [status |-> 400, body |-> "{code:-1121,msg:Invalid symbol.}"],
      [status |-> 429, body |-> "{code:-1003,msg:Too many requests.}"] }

\* what the venue answers for an outcome of the request
Responses(out) ==
    IF out = "non2xx" THEN ErrorResponses
    ELSE IF out \in Status \cup { "bad_json" } THEN { [status |-> HttpOk, body |-> out] }
    ELSE { NoResp }

\* anyhow!("Failed to get order status: HTTP {}", response.status()): what the
\* error of a non-2xx response carries
HttpError(response) ==
    [ok |-> FALSE, err |-> "non2xx", status |-> response.status, body |-> None]

PlaceSend ==
    /\ ppc = "send"
    /\ \E out \in SendOutcomes : \E response \in Responses(out) :
          /\ net' = IF out = "bad_api_key" THEN net
                    ELSE Append(net, [leg |-> "cex", item |-> ci, stage |-> "order",
                                      req |-> preq, ok |-> out \in Status])
          /\ presp' = response
          /\ pret' = IF out \in Status
                     THEN [ok |-> TRUE, val |-> [status |-> out, symbol |-> preq.symbol]]
                     ELSE IF out = "non2xx" THEN HttpError(response)
                     ELSE [ok |-> FALSE, err |-> out]
    /\ ppc' = "ret"
    /\ UNCHANGED << strategy, portfolioVars, libVars, hpc, cexVars, pargs, preq, dexVars, quoteVars,
                    results, httpStatus, orderStatus >>

\* --------------------------------------- process_binance_place_order
CexExtract ==
    /\ hpc = "cex_start"
    /\ positions' = extract_binance_place_order(strategy.orders)
    /\ ci' = 1
    /\ hpc' = "cex_loop"
    /\ UNCHANGED << strategy, portfolioVars, libVars, cexLeg, placeVars, dexVars, quoteVars, net, results,
                    httpStatus, orderStatus >>

\* mutant: the price is passed on only for an order declared as a limit order
CexCall_DeclaredType ==
    /\ hpc = "cex_loop"
    /\ ci <= Len(positions)
    /\ pargs' = [symbol |-> positions[ci].symbol,
                 side |-> positions[ci].side,
                 quantity |-> positions[ci].quantity,
                 price |-> IF positions[ci].order_type = "Limit" THEN positions[ci].price
                           ELSE None,
                 stop_price |-> None]
    /\ ppc' = "build"
    /\ hpc' = "cex_call"
    /\ UNCHANGED << strategy, portfolioVars, libVars, cexVars, preq, presp, pret, dexVars, quoteVars, net, results,
                    httpStatus, orderStatus >>

\* place_binance_order(base_url, key, symbol, side, quantity, price, None)
CexCall ==
    /\ hpc = "cex_loop"
    /\ ci <= Len(positions)
    /\ pargs' = [symbol |-> positions[ci].symbol,
                 side |-> positions[ci].side,
                 quantity |-> positions[ci].quantity,
                 price |-> positions[ci].price,
                 stop_price |-> None]
    /\ ppc' = "build"
    /\ hpc' = "cex_call"
    /\ UNCHANGED << strategy, portfolioVars, libVars, cexVars, preq, presp, pret, dexVars, quoteVars, net, results,
                    httpStatus, orderStatus >>

\* Ok(order): the result is printed and the loop goes on
CexItemOk ==
    /\ hpc = "cex_call" /\ ppc = "ret" /\ pret.ok
    /\ results' = Append(results, [leg |-> "cex", item |-> ci, outcome |-> "Success"])
    /\ ci' = ci + 1
    /\ ppc' = "idle"
    /\ presp' = NoResp
    /\ pret' = NoRet
    /\ hpc' = "cex_loop"
    /\ UNCHANGED << strategy, portfolioVars, libVars, positions, cexLeg, pargs, preq, dexVars,
                    quoteVars, net, httpStatus, orderStatus >>

\* mutant: execute propagates the error of the CEX leg as an error response
CexItemErr_Propagate ==
    /\ hpc = "cex_call" /\ ppc = "ret" /\ ~pret.ok
    /\ results' = Append(results, [leg |-> "cex", item |-> ci, outcome |-> "Failure"])
    /\ cexLeg' = "Err"
    /\ ppc' = "idle"
    /\ presp' = NoResp
    /\ pret' = NoRet
    /\ hpc' = "done"
    /\ httpStatus' = 500
    /\ UNCHANGED << strategy, portfolioVars, libVars, positions, ci, pargs, preq, dexVars,
                    quoteVars, net, orderStatus >>

\* Err(e)?: the leg returns the error, which execute prints
CexItemErr ==
    /\ hpc = "cex_call" /\ ppc = "ret" /\ ~pret.ok
    /\ results' = Append(results, [leg |-> "cex", item |-> ci, outcome |-> "Failure"])
    /\ cexLeg' = "Err"
    /\ ppc' = "idle"
    /\ presp' = NoResp
    /\ pret' = NoRet
    /\ hpc' = "dex_start"
    /\ UNCHANGED << strategy, portfolioVars, libVars, positions, ci, pargs, preq, dexVars,
                    quoteVars, net, httpStatus, orderStatus >>

CexLegOk ==
    /\ hpc = "cex_loop"
    /\ ci > Len(positions)
    /\ cexLeg' = "Ok"
    /\ hpc' = "dex_start"
    /\ UNCHANGED << strategy, portfolioVars, libVars, positions, ci, placeVars, dexVars, quoteVars, net,
                    results, httpStatus, orderStatus >>

\* ---------------------------------------------------- quote_and_send_tx
\* a request of swap si: the chain it is addressed to, what it carries,
\* whether it returned successfully and what it returned
DexReq(stage, chain, payload, ok, resp) ==
    [leg |-> "dex", item |-> si, stage |-> stage, chain |-> chain,
     payload |-> payload, ok |-> ok, resp |-> resp]

\* the chain in the URL of the quote request: {base_url}/chains/{chain_id}/v2/quote
QuoteUrlChain(chain_id) == chain_id

\* mutant: the build request is addressed to chain 1 whatever the provider's chain
BuildUrlChain_Mainnet(chain_id) == 1

\* the chain in the URL of the build request: {base_url}/chains/{chain_id}/v2/build
BuildUrlChain(chain_id) == chain_id

\* mutant: the error of the build request is ignored
AfterBuild_IgnoreError(ok) == "send"

\* mutant: a failed build request is made again
AfterBuild_Retry(ok) == IF ok THEN "send" ELSE "build"

\* get_tx_data(..).await? : the position after the build request returned
AfterBuild(ok) == IF ok THEN "send" ELSE "ret"

\* provider.get_chain_id().await?
QChainId ==
    /\ qpc = "chain_id"
    /\ \E ok \in BOOLEAN :
          /\ net' = Append(net, DexReq("chain_id", ProviderChainId, << >>, ok,
                                       IF ok THEN Some(ProviderChainId) ELSE None))
          /\ IF ok
             THEN /\ q' = [q EXCEPT !.chain_id = ProviderChainId]
                  /\ qpc' = "lookup"
                  /\ qret' = qret
             ELSE /\ q' = q
                  /\ qpc' = "ret"
                  /\ qret' = [ok |-> FALSE, err |-> "chain_id"]
    /\ UNCHANGED << strategy, portfolioVars, libVars, hpc, cexVars, placeVars, dexVars, results,
                    httpStatus, orderStatus >>

\* mutant: a token missing from the table gets a default address and decimals
QLookup_GuessAddress ==
    /\ qpc = "lookup"
    /\ LET entry(token) ==
               IF TableKey(token) \in DOMAIN sym_to_addr_n_decimals
               THEN sym_to_addr_n_decimals[TableKey(token)]
               ELSE << << "0","x","0","0" >>, 3 >>
       IN  q' = [q EXCEPT !.src_token_addr = entry(q.from_token)[1],
                          !.src_token_decimals = entry(q.from_token)[2],
                          !.dst_token_addr = entry(q.to_token)[1]]
    /\ qpc' = "convert"
    /\ UNCHANGED << strategy, portfolioVars, libVars, hpc, cexVars, placeVars, dexVars, qret, net, results,
                    httpStatus, orderStatus >>

\* the two indexings of sym_to_addr_n_decimals: a missing key panics
QLookup ==
    /\ qpc = "lookup"
    /\ IF /\ TableKey(q.from_token) \in DOMAIN sym_to_addr_n_decimals
          /\ TableKey(q.to_token) \in DOMAIN sym_to_addr_n_decimals
       THEN /\ q' = [q EXCEPT
                       !.src_token_addr = sym_to_addr_n_decimals[TableKey(q.from_token)][1],
                       !.src_token_decimals = sym_to_addr_n_decimals[TableKey(q.from_token)][2],
                       !.dst_token_addr = sym_to_addr_n_decimals[TableKey(q.to_token)][1]]
            /\ qpc' = "convert"
            /\ qret' = qret
       ELSE /\ q' = q
            /\ qpc' = "ret"
            /\ qret' = [ok |-> FALSE, err |-> "panic"]
    /\ UNCHANGED << strategy, portfolioVars, libVars, hpc, cexVars, placeVars, dexVars, net, results,
                    httpStatus, orderStatus >>

\* amount_in = U256::from_str_radix(..).unwrap()
QConvert ==
    /\ qpc = "convert"
    /\ LET a == AmountIn(q.amount, q.src_token_decimals)
       IN  IF a.ok
           THEN q' = [q EXCEPT !.amount_in = a.val] /\ qpc' = "quote" /\ qret' = qret
           ELSE q' = q /\ qpc' = "ret" /\ qret' = [ok |-> FALSE, err |-> "panic"]
    /\ UNCHANGED << strategy, portfolioVars, libVars, hpc, cexVars, placeVars, dexVars, net, results,
                    httpStatus, orderStatus >>

\* what get_quote can return: an error, or a QuoteResult with or without dex_agg
QuoteOutcomes ==
    { [ok |-> FALSE] }
      \cup { [ok |-> TRUE, is_swap_path_exists |-> FALSE, dex_agg |-> None] }
      \cup { [ok |-> TRUE, is_swap_path_exists |-> TRUE, dex_agg |-> Some(r)] : r \in Routes }

\* mutant: the route graph of a successful quote is taken from a cache
QQuote_Cached ==
    /\ qpc = "quote"
    /\ \E out \in QuoteOutcomes :
          /\ net' = Append(net, DexReq("quote", QuoteUrlChain(q.chain_id),
                       [token_in_addr |-> q.src_token_addr,
                        token_out_addr |-> q.dst_token_addr,
                        amount |-> q.amount_in], out.ok, out))
          /\ IF out.ok
             THEN /\ q' = [q EXCEPT !.quote =
                              IF out.dex_agg.some
                              THEN [out EXCEPT !.dex_agg = Some("r1")]
                              ELSE out]
                  /\ qpc' = "build"
                  /\ qret' = qret
             ELSE q' = q /\ qpc' = "ret" /\ qret' = [ok |-> FALSE, err |-> "quote"]
    /\ UNCHANGED << strategy, portfolioVars, libVars, hpc, cexVars, placeVars, dexVars, results,
                    httpStatus, orderStatus >>

\* get_quote(base_url, chain_id, src_token_addr, dst_token_addr, amount_in, None).await?
QQuote ==
    /\ qpc = "quote"
    /\ \E out \in QuoteOutcomes :
          /\ net' = Append(net, DexReq("quote", QuoteUrlChain(q.chain_id),
                       [token_in_addr |-> q.src_token_addr,
                        token_out_addr |-> q.dst_token_addr,
                        amount |-> q.amount_in], out.ok, out))
          /\ IF out.ok
             THEN q' = [q EXCEPT !.quote = out] /\ qpc' = "build" /\ qret' = qret
             ELSE q' = q /\ qpc' = "ret" /\ qret' = [ok |-> FALSE, err |-> "quote"]
    /\ UNCHANGED << strategy, portfolioVars, libVars, hpc, cexVars, placeVars, dexVars, results,
                    httpStatus, orderStatus >>

\* get_tx_data(.., quote.result.dex_agg.unwrap(), .., slippage_bps).await?
\* the unwrap is evaluated before the call: no dex_agg, no request, a panic
QBuild ==
    /\ qpc = "build"
    /\ IF q.quote.dex_agg.some
       THEN \E out \in { [ok |-> FALSE] } \cup { [ok |-> TRUE, tx |-> t] : t \in Txs } :
               /\ net' = Append(net, DexReq("build", BuildUrlChain(q.chain_id),
                            [dex_agg |-> q.quote.dex_agg.val,
                             slippage_bps |-> q.slippage_bps], out.ok, out))
               /\ q' = IF out.ok THEN [q EXCEPT !.tx_data = out.tx] ELSE q
               /\ qpc' = AfterBuild(out.ok)
               /\ qret' = IF out.ok THEN qret ELSE [ok |-> FALSE, err |-> "build"]
       ELSE /\ net' = net
            /\ q' = q
            /\ qpc' = "ret"
            /\ qret' = [ok |-> FALSE, err |-> "panic"]
    /\ UNCHANGED << strategy, portfolioVars, libVars, hpc, cexVars, placeVars, dexVars, results,
                    httpStatus, orderStatus >>

\* what becomes of a transaction the node has accepted: it is included in a
\* block, the watch fails, or it stays pending (or is dropped) for ever
Fates == { "included", "watch_err", "never" }

\* mutant: send_tx returns the hash as soon as the node has accepted the
\* transaction
QSend_NoWatch ==
    /\ qpc = "send"
    /\ \E accepted \in BOOLEAN :
          /\ net' = Append(net, DexReq("broadcast", ProviderChainId, [tx |-> q.tx_data],
                                       accepted, IF accepted THEN "accepted" ELSE "send_err"))
          /\ qret' = IF accepted THEN [ok |-> TRUE, val |-> "hash"]
                     ELSE [ok |-> FALSE, err |-> "send_err"]
    /\ qpc' = "ret"
    /\ UNCHANGED << strategy, portfolioVars, libVars, hpc, cexVars, placeVars, dexVars, q, results,
                    httpStatus, orderStatus >>

\* send_tx: provider.send_transaction(tx).await?
QSend ==
    /\ qpc = "send"
    /\ \E accepted \in BOOLEAN :
          /\ net' = Append(net, DexReq("broadcast", ProviderChainId, [tx |-> q.tx_data],
                                       accepted, IF accepted THEN "accepted" ELSE "send_err"))
          /\ IF accepted
             THEN /\ \E fate \in Fates : q' = [q EXCEPT !.fate = fate]
                  /\ qpc' = "watch"
                  /\ qret' = qret
             ELSE /\ q' = q
                  /\ qpc' = "ret"
                  /\ qret' = [ok |-> FALSE, err |-> "send_err"]
    /\ UNCHANGED << strategy, portfolioVars, libVars, hpc, cexVars, placeVars, dexVars, results,
                    httpStatus, orderStatus >>

\* send_tx: .watch().await? : the pending transaction is awaited without a
\* timeout, so the call returns only when the transaction is included or the
\* watch fails
QWatch ==
    /\ qpc = "watch"
    /\ q.fate # "never"
    /\ net' = Append(net, DexReq("watch", ProviderChainId, [tx |-> q.tx_data],
                                 q.fate = "included", q.fate))
    /\ qret' = IF q.fate = "included" THEN [ok |-> TRUE, val |-> "hash"]
               ELSE [ok |-> FALSE, err |-> "watch_err"]
    /\ qpc' = "ret"
    /\ UNCHANGED << strategy, portfolioVars, libVars, hpc, cexVars, placeVars, dexVars, q, results,
                    httpStatus, orderStatus >>

\* ------------------------------------------------- process_eisen_swaps
\* mutant: the swaps are started while orders are still to be placed
DexExtract_BeforeCex ==
    /\ hpc \in { "dex_start", "cex_loop" }
    /\ swaps' = extract_eisen_swaps(strategy.swaps)
    /\ si' = 1
    /\ hpc' = "dex_loop"
    /\ UNCHANGED << strategy, portfolioVars, libVars, cexVars, placeVars, dexLeg, quoteVars, net, results,
                    httpStatus, orderStatus >>

\* process_eisen_swaps is called once process_binance_place_order has returned
DexExtract ==
    /\ hpc = "dex_start"
    /\ swaps' = extract_eisen_swaps(strategy.swaps)
    /\ si' = 1
    /\ hpc' = "dex_loop"
    /\ UNCHANGED << strategy, portfolioVars, libVars, cexVars, placeVars, dexLeg, quoteVars, net, results,
                    httpStatus, orderStatus >>

\* mutant: the swap is spawned as a task that is not awaited: its first
\* request goes out and the loop moves on to the next swap
DexCall_Detached ==
    /\ hpc = "dex_loop"
    /\ si <= Len(swaps)
    /\ net' = Append(net, DexReq("chain_id", ProviderChainId, << >>, TRUE,
                                 Some(ProviderChainId)))
    /\ si' = si + 1
    /\ UNCHANGED << strategy, portfolioVars, libVars, hpc, cexVars, placeVars, swaps, dexLeg, quoteVars,
                    results, httpStatus, orderStatus >>

DexCall ==
    /\ hpc = "dex_loop"
    /\ si <= Len(swaps)
    /\ q' = [from_token |-> swaps[si].token_in,
             to_token |-> swaps[si].token_out,
             amount |-> swaps[si].amount,
             slippage_bps |-> DefaultSlippageBps,
             src_token_addr |-> << >>,
             src_token_decimals |-> 0,
             dst_token_addr |-> << >>,
             amount_in |-> 0,
             quote |-> [ok |-> FALSE, is_swap_path_exists |-> FALSE, dex_agg |-> None],
             tx_data |-> "none",
             chain_id |-> 0,
             fate |-> "none"]
    /\ qpc' = "chain_id"
    /\ hpc' = "dex_call"
    /\ UNCHANGED << strategy, portfolioVars, libVars, cexVars, placeVars, dexVars, qret, net, results,
                    httpStatus, orderStatus >>

DexItemOk ==
    /\ hpc = "dex_call" /\ qpc = "ret" /\ qret.ok
    /\ results' = Append(results, [leg |-> "dex", item |-> si, outcome |-> "Success"])
    /\ si' = si + 1
    /\ qpc' = "idle"
    /\ qret' = NoRet
    /\ hpc' = "dex_loop"
    /\ UNCHANGED << strategy, portfolioVars, libVars, cexVars, placeVars, swaps, dexLeg, q, net,
                    httpStatus, orderStatus >>

\* Err(e)?: the leg returns the error, which execute prints
DexItemErr ==
    /\ hpc = "dex_call" /\ qpc = "ret" /\ ~qret.ok /\ qret.err # "panic"
    /\ results' = Append(results, [leg |-> "dex", item |-> si, outcome |-> "Failure"])
    /\ dexLeg' = "Err"
    /\ qpc' = "idle"
    /\ qret' = NoRet
    /\ hpc' = "respond"
    /\ UNCHANGED << strategy, portfolioVars, libVars, cexVars, placeVars, swaps, si, q, net,
                    httpStatus, orderStatus >>

\* a panic unwinds through process_eisen_swaps and execute: the request's task
\* ends without a response
DexItemPanic ==
    /\ hpc = "dex_call" /\ qpc = "ret" /\ ~qret.ok /\ qret.err = "panic"
    /\ qpc' = "idle"
    /\ hpc' = "panicked"
    /\ UNCHANGED << strategy, portfolioVars, libVars, cexVars, placeVars, dexVars, q, qret, net, results,
                    httpStatus, orderStatus >>

DexLegOk ==
    /\ hpc = "dex_loop"
    /\ si > Len(swaps)
    /\ dexLeg' = "Ok"
    /\ hpc' = "respond"
    /\ UNCHANGED << strategy, portfolioVars, libVars, cexVars, placeVars, swaps, si, quoteVars, net,
                    results, httpStatus, orderStatus >>

\* --------------------------------------------------------------- execute
HttpNotFound == 404
HttpInternalServerError == 500

\* get_binance_portfolio(..).await: Some(account_info) or None
ExecuteBinancePortfolio ==
    /\ hpc = "binance_portfolio"
    /\ binance_account_info' \in { None, Some("account_info") }
    /\ hpc' = "setup"
    /\ UNCHANGED << strategy, base_chain_portfolio, libVars, cexVars, placeVars, dexVars,
                    quoteVars, net, results, httpStatus, orderStatus >>

\* signer, provider, chain id and chain metadata: a missing key, a failing
\* get_chain_id or get_chain_metadata answers 500, a malformed key panics
ExecuteSetup ==
    /\ hpc = "setup"
    /\ \E setup \in { "ok", "error", "panic" } :
          /\ hpc' = CASE setup = "ok" -> "base_portfolio"
                      [] setup = "error" -> "done"
                      [] setup = "panic" -> "panicked"
          /\ httpStatus' = IF setup = "error" THEN HttpInternalServerError ELSE httpStatus
    /\ UNCHANGED << strategy, portfolioVars, libVars, cexVars, placeVars, dexVars,
                    quoteVars, net, results, orderStatus >>

\* get_balance_allow(base_url, 8453, wallet).await: Some(portfolio) or None
ExecuteBasePortfolio ==
    /\ hpc = "base_portfolio"
    /\ base_chain_portfolio' \in { None, Some("portfolio") }
    /\ hpc' = "portfolio_check"
    /\ UNCHANGED << strategy, binance_account_info, libVars, cexVars, placeVars, dexVars,
                    quoteVars, net, results, httpStatus, orderStatus >>

\* if binance_account_info.is_some() || base_chain_portfolio.is_some(): both
\* are unwrapped for the summary, then the strategy is generated and parsed;
\* else 404
ExecuteStrategy ==
    /\ hpc = "portfolio_check"
    /\ IF binance_account_info.some \/ base_chain_portfolio.some
       THEN IF base_chain_portfolio.some /\ binance_account_info.some
            THEN /\ strategy' \in Strategies
                 /\ hpc' = "cex_start"
                 /\ httpStatus' = httpStatus
            ELSE /\ hpc' = "panicked"
                 /\ UNCHANGED << strategy, httpStatus >>
       ELSE /\ httpStatus' = HttpNotFound
            /\ hpc' = "done"
            /\ strategy' = strategy
    /\ UNCHANGED << portfolioVars, libVars, cexVars, placeVars, dexVars, quoteVars, net,
                    results, orderStatus >>

Respond ==
    /\ hpc = "respond"
    /\ httpStatus' = HttpOk
    /\ hpc' = "done"
    /\ UNCHANGED << strategy, portfolioVars, libVars, cexVars, placeVars, dexVars, quoteVars, net, results,
                    orderStatus >>

Next ==
    \/ ExecuteBinancePortfolio \/ ExecuteSetup \/ ExecuteBasePortfolio \/ ExecuteStrategy
    \/ CexExtract \/ CexCall \/ PlaceBuild \/ PlaceSign \/ PlaceSend
    \/ CexItemOk \/ CexItemErr \/ CexLegOk
    \/ DexExtract \/ DexCall \/ QChainId \/ QLookup \/ QConvert \/ QQuote
    \/ QBuild \/ QSend \/ QWatch \/ DexItemOk \/ DexItemErr \/ DexItemPanic \/ DexLegOk
    \/ Respond

Spec == Init /\ [][Next]_vars

\* ------------------------------------------- direct calls of the executor
\* place_binance_order called as the crate's own test calls it, with any
\* combination of quantity, price and stop price; the caller then converts the
\* venue status of the returned order
\* a text in every mix of upper and lower case
RECURSIVE CaseVariants(_)
CaseVariants(word) ==
    IF word = << >> THEN { << >> }
    ELSE { << c >> \o rest : c \in { LowerChar(word[1]), UpperChar(word[1]) },
                             rest \in CaseVariants(Tail(word)) }

DirectSymbols == CaseVariants(T_eth) \cup { T_Btc }
DirectQuantities == { None, from_str_exact(T_0_5), from_str_exact(T_1_1) }
DirectPrices == { None, from_str_exact(T_2000) }
DirectStopPrices == { None, from_str_exact(<< "1","9","0","0" >>) }

InitPlace ==
    /\ strategy = [orders |-> << >>, swaps |-> << >>]
    /\ hpc = "direct"
    /\ positions = << >> /\ ci = 0 /\ cexLeg = "none"
    /\ ppc = "build"
    /\ pargs \in [symbol : DirectSymbols, side : {"Buy", "Sell"},
                  quantity : DirectQuantities, price : DirectPrices,
                  stop_price : DirectStopPrices]
    /\ preq = NoReq /\ presp = NoResp /\ pret = NoRet
    /\ swaps = << >> /\ si = 0 /\ dexLeg = "none"
    /\ qpc = "idle" /\ q = NoLocals /\ qret = NoRet
    /\ net = << >> /\ results = << >>
    /\ httpStatus = 0
    /\ orderStatus = [ok |-> FALSE, val |-> "none"]
    /\ binance_account_info = None /\ base_chain_portfolio = None
    /\ LibIdle

DirectConvert ==
    /\ hpc = "direct" /\ ppc = "ret" /\ pret.ok
    /\ orderStatus' = TryFromStatus(pret.val.status)
    /\ hpc' = "direct_done"
    /\ UNCHANGED << strategy, portfolioVars, libVars, cexVars, placeVars, dexVars, quoteVars, net, results,
                    httpStatus >>

NextPlace == PlaceBuild \/ PlaceSign \/ PlaceSend \/ DirectConvert

SpecPlace == InitPlace /\ [][NextPlace]_vars

\* quote_and_send_tx called for one swap of 1.1 whose token symbols are written
\* in any mix of upper and lower case
DirectTokens == CaseVariants(T_usdc) \cup CaseVariants(T_eth) \cup { T_doge }

InitSwap ==
    /\ strategy = [orders |-> << >>, swaps |-> << >>]
    /\ hpc = "direct_swap"
    /\ positions = << >> /\ ci = 0 /\ cexLeg = "none"
    /\ ppc = "idle" /\ pargs = NoArgs /\ preq = NoReq /\ presp = NoResp /\ pret = NoRet
    /\ \E from_token \in DirectTokens : \E to_token \in DirectTokens :
          /\ swaps = << [token_in |-> from_token, token_out |-> to_token,
                         amount |-> parse_f64_or_zero(T_1_1)] >>
          /\ q = [from_token |-> from_token,
                  to_token |-> to_token,
                  amount |-> parse_f64_or_zero(T_1_1),
                  slippage_bps |-> DefaultSlippageBps,
                  src_token_addr |-> << >>,
                  src_token_decimals |-> 0,
                  dst_token_addr |-> << >>,
                  amount_in |-> 0,
                  quote |-> [ok |-> FALSE, is_swap_path_exists |-> FALSE, dex_agg |-> None],
                  tx_data |-> "none",
                  chain_id |-> 0,
                  fate |-> "none"]
    /\ si = 1 /\ dexLeg = "none"
    /\ qpc = "chain_id" /\ qret = NoRet
    /\ net = << >> /\ results = << >>
    /\ httpStatus = 0
    /\ orderStatus = [ok |-> FALSE, val |-> "none"]
    /\ binance_account_info = None /\ base_chain_portfolio = None
    /\ LibIdle

NextSwap == QChainId \/ QLookup \/ QConvert \/ QQuote \/ QBuild \/ QSend \/ QWatch

SpecSwap == InitSwap /\ [][NextSwap]_vars

\* --------------------------- process_binance_place_order called directly
\* orders for the same token, side and amount, with or without a price, that
\* declare every combination of type, timeInForce, reduceOnly and closePosition
DeclaredOrders ==
    { OrderJson(Some(T_eth), Some(T_buy), Some(T_0_5), price, type, tif, ro, cp) :
        price \in { None, Some(T_2000) },
        type \in { None, Some(T_limit) },
        tif \in { None, Some(T_ioc) },
        ro \in { None, Some(TRUE) },
        cp \in { None, Some(TRUE) } }

\* a strategy of two such orders
InitCex ==
    /\ strategy \in { [orders |-> << o1, o2 >>, swaps |-> << >>] :
                        o1 \in DeclaredOrders, o2 \in DeclaredOrders }
    /\ hpc = "cex_start"
    /\ positions = << >> /\ ci = 0 /\ cexLeg = "none"
    /\ ppc = "idle" /\ pargs = NoArgs /\ preq = NoReq /\ presp = NoResp /\ pret = NoRet
    /\ swaps = << >> /\ si = 0 /\ dexLeg = "none"
    /\ qpc = "idle" /\ q = NoLocals /\ qret = NoRet
    /\ net = << >> /\ results = << >>
    /\ httpStatus = 0
    /\ orderStatus = [ok |-> FALSE, val |-> "none"]
    /\ binance_account_info = None /\ base_chain_portfolio = None
    /\ LibIdle

NextCex ==
    \/ CexExtract \/ CexCall \/ PlaceBuild \/ PlaceSign \/ PlaceSend
    \/ CexItemOk \/ CexItemErr \/ CexLegOk

SpecCex == InitCex /\ [][NextCex]_vars

\* ------------------------------------------- direct calls of key.sign
\* the handler and both executors at rest while a caller uses the library
ExecutorsIdle(caller) ==
    /\ strategy = [orders |-> << >>, swaps |-> << >>]
    /\ hpc = caller
    /\ positions = << >> /\ ci = 0 /\ cexLeg = "none"
    /\ ppc = "idle" /\ pargs = NoArgs /\ preq = NoReq /\ presp = NoResp /\ pret = NoRet
    /\ swaps = << >> /\ si = 0 /\ dexLeg = "none"
    /\ qpc = "idle" /\ q = NoLocals /\ qret = NoRet
    /\ net = << >> /\ results = << >>
    /\ httpStatus = 0
    /\ orderStatus = [ok |-> FALSE, val |-> "none"]
    /\ binance_account_info = None /\ base_chain_portfolio = None

\* how many times the caller signs
MaxSigns == 2

\* keys: two secrets, and a key whose secret cannot be used
SignKeys ==
    { [valid |-> TRUE, secret_key |-> "secret-1"],
      [valid |-> TRUE, secret_key |-> "secret-2"],
      [valid |-> FALSE, secret_key |-> "secret-1"] }

\* a limit order with a stop price, and the orders that differ from it in the
\* value of one argument
SignParams ==
    LET qty == from_str_exact(T_0_5)
        limit == from_str_exact(T_2000)
        stop == from_str_exact(<< "1","9","0","0" >>)
    IN  { BuildPlaceOrder(T_eth, "Buy", Some(qty), Some(limit), Some(stop)),
          BuildPlaceOrder(T_Btc, "Buy", Some(qty), Some(limit), Some(stop)),
          BuildPlaceOrder(T_eth, "Sell", Some(qty), Some(limit), Some(stop)),
          BuildPlaceOrder(T_eth, "Buy", Some(from_str_exact(T_1_1)), Some(limit), Some(stop)),
          BuildPlaceOrder(T_eth, "Buy", None, Some(limit), Some(stop)),
          BuildPlaceOrder(T_eth, "Buy", Some(qty), Some(from_str_exact(T_1_1)), Some(stop)),
          BuildPlaceOrder(T_eth, "Buy", Some(qty), Some(limit), Some(limit)),
          BuildPlaceOrder(T_eth, "Buy", Some(qty), Some(limit), None) }

\* the clock in milliseconds when the signer reads it: it never runs backwards,
\* and two calls may fall into the same millisecond
ClockReadings ==
    IF signed = << >> THEN { 1 }
    ELSE { signed[Len(signed)].timestamp, signed[Len(signed)].timestamp + 1 }

InitSign ==
    /\ ExecutorsIdle("sign_direct")
    /\ LibIdle

SignDirect ==
    /\ hpc = "sign_direct"
    /\ Len(signed) < MaxSigns
    /\ \E key \in SignKeys : \E params \in SignParams : \E timestamp \in ClockReadings :
          signed' = Append(signed, [key |-> key, params |-> params,
                                    timestamp |-> timestamp,
                                    out |-> sign(key, params, timestamp)])
    /\ UNCHANGED << strategy, hpc, cexVars, placeVars, dexVars, quoteVars, net, results,
                    httpStatus, orderStatus, portfolioVars, http_feature, error, outcome >>

NextSign == SignDirect

SpecSign == InitSign /\ [][NextSign]_vars

\* ------------------------------------------------- executor/error.rs
\* how deep the errors given to the library are nested in Layer
MaxLayers == 2

\* texts carried by errors
Messages == { "timed out", "busy" }

\* an error value: its Rust type, its variant, the text it carries and, for a
\* wrapping variant, the error it wraps
Err(type, variant, msg, inner) ==
    [type |-> type, variant |-> variant, msg |-> msg, inner |-> inner]

\* the variants of ExchangeError that carry an error or a text, by build
CarryingVariants(http) ==
    { "Other", "Api", "Unavailable", "RateLimited", "KeyError", "Forbidden",
      "UnexpectedResponseType" } \cup (IF http THEN { "Http" } ELSE { })

\* the ExchangeErrors that are not a Layer
PlainExchangeErrors(http) ==
    { Err("ExchangeError", v, m, NoError) : v \in CarryingVariants(http), m \in Messages }
        \cup { Err("ExchangeError", "Instrument", "instrument does not exist", NoError),
               Err("ExchangeError", "OrderNotFound", "", NoError) }

\* errors of other types that can be boxed into a Layer
ForeignErrors == { Err("io::Error", "Os", m, NoError) : m \in Messages }

\* the ExchangeErrors nested in at most depth Layers
RECURSIVE ExchangeErrors(_, _)
ExchangeErrors(http, depth) ==
    IF depth = 0 THEN PlainExchangeErrors(http)
    ELSE PlainExchangeErrors(http)
            \cup { Err("ExchangeError", "Layer", "", boxed) :
                     boxed \in ExchangeErrors(http, depth - 1) \cup ForeignErrors }

\* the variants of RestError other than Exchange
OtherRestVariants ==
    { "Api", "Http", "Hyper", "Json", "Urlencoded", "InvalidHeaderValue",
      "UnexpectedResponseType", "UnsupportedEndpoint", "NeedApikey", "SignError",
      "Utf8", "Text", "PlaceZeroSize", "FailedToBuildExcSymbol",
      "MissingDateForFutures", "InvalidDateForOptions",
      "MissingBaseAssetForOptions", "UnknownContractType" }

RestErrors(http) ==
    { Err("RestError", "Exchange", "", wrapped) : wrapped \in ExchangeErrors(http, MaxLayers) }
        \cup { Err("RestError", v, "", NoError) : v \in OtherRestVariants }

\* mutant: a layered error is classified by what it wraps
ExchangeError_is_temporary_Inner(exErr) ==
    \/ exErr.variant \in { "RateLimited", "Unavailable" }
    \/ http_feature /\ exErr.variant = "Http"
    \/ exErr.variant = "Layer" /\ exErr.inner.variant \in { "RateLimited", "Unavailable" }

\* ExchangeError::is_temporary, in the build with or without the feature
ExchangeError_is_temporary(exErr) ==
    IF http_feature
    THEN exErr.variant \in { "RateLimited", "Unavailable", "Http" }
    ELSE exErr.variant \in { "RateLimited", "Unavailable" }

\* RestError::is_temporary
RestError_is_temporary(restErr) ==
    IF restErr.variant = "Exchange" THEN ExchangeError_is_temporary(restErr.inner)
    ELSE FALSE

\* mutant: one Layer is taken off
flatten_OneLayer(layered) ==
    IF layered.variant = "Layer"
    THEN IF layered.inner.type = "ExchangeError"
         THEN layered.inner
         ELSE Err("ExchangeError", "Other", layered.inner.msg, NoError)
    ELSE layered

\* ExchangeError::flatten; anyhow!("{err}") keeps the text of the boxed error
RECURSIVE flatten(_)
flatten(layered) ==
    IF layered.variant = "Layer"
    THEN IF layered.inner.type = "ExchangeError"
         THEN flatten(layered.inner)
         ELSE Err("ExchangeError", "Other", layered.inner.msg, NoError)
    ELSE layered

\* a caller holds an error of either type
InitError ==
    /\ ExecutorsIdle("error_direct")
    /\ signed = << >>
    /\ http_feature \in BOOLEAN
    /\ error \in ExchangeErrors(http_feature, MaxLayers) \cup RestErrors(http_feature)
    /\ outcome = NoOutcome

\* err.is_temporary()
IsTemporary ==
    /\ hpc = "error_direct" /\ outcome = NoOutcome
    /\ outcome' = [op |-> "is_temporary",
                   val |-> IF error.type = "RestError"
                           THEN RestError_is_temporary(error)
                           ELSE ExchangeError_is_temporary(error)]
    /\ UNCHANGED << strategy, hpc, cexVars, placeVars, dexVars, quoteVars, net, results,
                    httpStatus, orderStatus, portfolioVars, signed, http_feature, error >>

\* err.flatten()
Flatten ==
    /\ hpc = "error_direct" /\ outcome = NoOutcome
    /\ error.type = "ExchangeError"
    /\ outcome' = [op |-> "flatten", val |-> flatten(error)]
    /\ UNCHANGED << strategy, hpc, cexVars, placeVars, dexVars, quoteVars, net, results,
                    httpStatus, orderStatus, portfolioVars, signed, http_feature, error >>

\* err.flatten().flatten()
FlattenAgain ==
    /\ hpc = "error_direct" /\ outcome.op = "flatten"
    /\ outcome' = [op |-> "flatten_twice", val |-> flatten(outcome.val),
                   once |-> outcome.val]
    /\ UNCHANGED << strategy, hpc, cexVars, placeVars, dexVars, quoteVars, net, results,
                    httpStatus, orderStatus, portfolioVars, signed, http_feature, error >>

NextError == IsTemporary \/ Flatten \/ FlattenAgain

SpecError == InitError /\ [][NextError]_vars

\* ================================================================ claims
\* the requests of one kind issued so far
OrderReqs == { j \in 1..Len(net) : net[j].stage = "order" }
StageReqs(stage) == { j \in 1..Len(net) : net[j].leg = "dex" /\ net[j].stage = stage }

\* the order kind the prices of the call ask for, spelled out
C1_KindMatches(r) ==
    /\ pargs.price.some =>
          /\ r.order_type = "Limit"
          /\ r.time_in_force = Some("Gtc")
          /\ r.close_position = Some(FALSE)
    /\ (~pargs.price.some /\ pargs.stop_price.some) =>
          /\ r.order_type = "StopMarket"
          /\ r.time_in_force = None
          /\ r.close_position = Some(TRUE)
    /\ (~pargs.price.some /\ ~pargs.stop_price.some) =>
          /\ r.order_type = "Market"
          /\ r.time_in_force = None
          /\ r.close_position = Some(FALSE)

\* C1: place_binance_order picks the order kind from the prices present alone:
\* a price gives Limit, GTC, closePosition=false; no price and a stop price
\* give StopMarket, closePosition=true, no timeInForce; neither gives Market,
\* closePosition=false, no timeInForce. Stated of the request parameters once
\* built and of every request sent.
C1_OrderKindFromPrices ==
    /\ ppc \in {"sign", "send", "ret"} => C1_KindMatches(preq)
    /\ \A j \in OrderReqs : C1_KindMatches(net[j].req)

\* C1 witness: a request was sent for a call with a price and a stop price
C1_Witness ==
    /\ pargs.price.some /\ pargs.stop_price.some
    /\ \E j \in OrderReqs : net[j].req.order_type = "Limit"

\* C3: the conversion of the venue Status is total and fixed: New and
\* PartiallyFilled give Pending; Filled, Canceled and Expired give Finished;
\* NewAdl and NewInsurance give Pending; it never fails and never gives Unknown.
C3_StatusMapping ==
    hpc = "direct_done" =>
        /\ orderStatus.ok
        /\ orderStatus.val # "Unknown"
        /\ pret.val.status \in {"New", "PartiallyFilled", "NewAdl", "NewInsurance"}
              => orderStatus.val = "Pending"
        /\ pret.val.status \in {"Filled", "Canceled", "Expired"}
              => orderStatus.val = "Finished"

\* C3 witness: an order in an ADL liquidation status was converted
C3_Witness ==
    /\ hpc = "direct_done"
    /\ pret.val.status = "NewAdl"
    /\ orderStatus.val = "Pending"

\* C2: end to end, the strategy order {token "ETH", side "sell", amount "0.5",
\* no price} leads to exactly one submitted order: a Market SELL of 0.5 for the
\* symbol "ETHUSDT".
C2_MarketSellEthUsdt ==
    strategy.orders =
        << OrderJson(Some(T_ETH), Some(T_sell), Some(T_0_5), None, None, None, None, None) >>
    => /\ Cardinality(OrderReqs) <= 1
       /\ cexLeg = "Ok" => Cardinality(OrderReqs) = 1
       /\ \A j \in OrderReqs :
             /\ net[j].req.symbol = << "E","T","H","U","S","D","T" >>
             /\ net[j].req.side = "Sell"
             /\ net[j].req.order_type = "Market"
             /\ net[j].req.quantity = Some([neg |-> FALSE, m |-> 5, e |-> 1])

\* C4: the stages of one swap run in the order conversion, quote, build,
\* broadcast: the quote request carries the converted amount, a build request
\* follows a quote request of the same swap that returned successfully, and a
\* broadcast follows a build request of the same swap that returned successfully.
C4_StagesInOrder ==
    /\ \A j \in StageReqs("quote") :
          (hpc = "dex_call" /\ net[j].item = si) =>
              /\ qpc \notin {"chain_id", "lookup", "convert"}
              /\ net[j].payload.amount = q.amount_in
    /\ \A j \in StageReqs("build") :
          \E k \in StageReqs("quote") : k < j /\ net[k].item = net[j].item /\ net[k].ok
    /\ \A j \in StageReqs("broadcast") :
          \E k \in StageReqs("build") : k < j /\ net[k].item = net[j].item /\ net[k].ok

\* C4 witness: the second swap of a strategy went through to its broadcast
C4_Witness ==
    \E j \in StageReqs("broadcast") : net[j].item = 2 /\ net[j].ok

\* C5: when the quote of a swap has no route graph, no build and no broadcast
\* request is issued for the swap and quote_and_send_tx returns an error value
\* (a Failure for the dispatcher), it does not abort.
C5_NoPathIsFailure ==
    (hpc = "dex_call" /\ qpc = "ret" /\ q.quote.ok /\ ~q.quote.dex_agg.some) =>
        /\ \A j \in StageReqs("build") \cup StageReqs("broadcast") : net[j].item # si
        /\ ~qret.ok
        /\ qret.err # "panic"

\* C6: a failing swap aborts that swap alone: when the request has been
\* answered, every swap of the list has been attempted and has its outcome.
C6_LaterSwapsAttempted ==
    hpc = "done" =>
        \A i \in 1..Len(swaps) :
            \E r \in 1..Len(results) : results[r].leg = "dex" /\ results[r].item = i

\* C7: a failing order does not stop the CEX leg: when the leg has returned,
\* every order of the list has been attempted and has its outcome.
C7_LaterOrdersAttempted ==
    cexLeg # "none" =>
        \A i \in 1..Len(positions) :
            \E r \in 1..Len(results) : results[r].leg = "cex" /\ results[r].item = i

C9_InvalidOrder(o) ==
    \/ ~HasValidSide(o)
    \/ ~o.amount.some
    \/ ~from_str_exact(o.amount.val).some
    \/ from_str_exact(o.amount.val).val.neg
    \/ from_str_exact(o.amount.val).val.m = 0

\* the items the dispatcher has called an executor for
C9_Attempted ==
    (IF cexLeg = "Ok" THEN Len(positions) ELSE ci)
      + (IF dexLeg = "Ok" THEN Len(swaps) ELSE si)

\* C9: when a dispatch has ended there is exactly one outcome per attempted
\* item; one invalid order and two swaps that succeed give three outcomes:
\* Failure for the order, Success for both swaps.
C9_OneResultPerItem ==
    /\ hpc = "done" => Len(results) = C9_Attempted
    /\ ( /\ hpc = "done"
         /\ Len(strategy.orders) = 1
         /\ C9_InvalidOrder(strategy.orders[1])
         /\ Len(strategy.swaps) = 2
         /\ Len(swaps) = 2
         /\ dexLeg = "Ok" )
       => /\ Len(results) = 3
          /\ results[1].leg = "cex" /\ results[1].outcome = "Failure"
          /\ results[2].leg = "dex" /\ results[2].outcome = "Success"
          /\ results[3].leg = "dex" /\ results[3].outcome = "Success"

\* C10: no request is sent to the venue for an order whose quantity is missing,
\* unparsable, zero or negative.
C10_InvalidQuantityNotSent ==
    \A j \in OrderReqs :
        /\ net[j].req.quantity.some
        /\ ~net[j].req.quantity.val.neg
        /\ net[j].req.quantity.val.m > 0

\* C11: a swap whose amount is zero, negative or unparsable is rejected before
\* any network call: every quote, build and broadcast request belongs to a swap
\* whose amount is positive.
C11_InvalidAmountRejected ==
    \A j \in StageReqs("quote") \cup StageReqs("build") \cup StageReqs("broadcast") :
       /\ ~swaps[net[j].item].amount.neg
       /\ swaps[net[j].item].amount.mant # << >>

\* the address the chain token table gives for a symbol, spelled out
C12_Address(token) ==
    IF to_lowercase(token) = T_usdc THEN Some(<< "0","x","a","1" >>)
    ELSE IF to_lowercase(token) = T_eth THEN Some(<< "0","x","b","2" >>)
    ELSE None

C12_Known(s) == C12_Address(s.token_in).some /\ C12_Address(s.token_out).some

\* C12: a swap whose token-in or token-out is absent from the chain token table
\* fails hard: no quote, build or broadcast request is issued for it,
\* quote_and_send_tx does not return Ok for it, and the addresses of every
\* quote request are the table's addresses of the swap's two tokens.
C12_UnknownTokenFailsHard ==
    /\ \A j \in StageReqs("quote") \cup StageReqs("build") \cup StageReqs("broadcast") :
          C12_Known(swaps[net[j].item])
    /\ \A j \in StageReqs("quote") :
          /\ Some(net[j].payload.token_in_addr) = C12_Address(swaps[net[j].item].token_in)
          /\ Some(net[j].payload.token_out_addr) = C12_Address(swaps[net[j].item].token_out)
    /\ (hpc = "dex_call" /\ qpc = "ret" /\ ~C12_Known(swaps[si])) => ~qret.ok
    /\ \A j \in 1..Len(results) :
          (results[j].leg = "dex" /\ ~C12_Known(swaps[results[j].item])) =>
              results[j].outcome # "Success"

\* C12 witness: the swap from usdc to doge was started and has ended in the
\* panic of the table lookup
C12_Witness ==
    /\ hpc = "panicked"
    /\ si \in 1..Len(swaps)
    /\ swaps[si].token_out = T_doge
    /\ \E j \in StageReqs("chain_id") : net[j].item = si /\ net[j].ok

\* C13: the route graph sent in a build request is the route graph returned by
\* the quote request of the same swap, which is the latest quote request made
\* before the build; no build request carries the route of another swap's quote.
C13_BuildUsesOwnQuote ==
    \A j \in StageReqs("build") :
       \E k \in StageReqs("quote") :
          /\ k < j
          /\ net[k].item = net[j].item
          /\ net[k].ok
          /\ net[k].resp.dex_agg = Some(net[j].payload.dex_agg)
          /\ \A l \in StageReqs("quote") : l < j => l <= k

\* C13 witness: two swaps of one strategy were quoted different routes and
\* both were built
C13_Witness ==
    \E j, k \in StageReqs("build") :
       /\ net[j].item = 1 /\ net[j].payload.dex_agg = "r1"
       /\ net[k].item = 2 /\ net[k].payload.dex_agg = "r2"

\* swap i was broadcast, accepted, and then seen included by the watch
C14_Included(i) ==
    \E b \in StageReqs("broadcast") : \E w \in StageReqs("watch") :
       /\ b < w
       /\ net[b].item = i /\ net[b].ok
       /\ net[w].item = i /\ net[w].ok /\ net[w].resp = "included"

\* C14: a swap is successful only after its broadcast transaction has been
\* observed as included: quote_and_send_tx returns Ok, and the dispatcher logs
\* a success, only for a swap whose transaction the node accepted and whose
\* watch then saw it included.
C14_SuccessAfterInclusion ==
    /\ (hpc = "dex_call" /\ qpc = "ret" /\ qret.ok) => C14_Included(si)
    /\ \A j \in 1..Len(results) :
          (results[j].leg = "dex" /\ results[j].outcome = "Success") =>
              C14_Included(results[j].item)

\* C14 witness: the first swap succeeded; the transaction of the second was
\* accepted by the node, its watch failed, and the swap is a failure
C14_Witness ==
    /\ \E j \in 1..Len(results) :
          results[j] = [leg |-> "dex", item |-> 1, outcome |-> "Success"]
    /\ \E j \in 1..Len(results) :
          results[j] = [leg |-> "dex", item |-> 2, outcome |-> "Failure"]
    /\ \E b \in StageReqs("broadcast") : net[b].item = 2 /\ net[b].ok

\* C15: when the venue answers an order submission with a non-2xx status,
\* place_binance_order returns an error, never an order, and the error carries
\* the raw body of the venue's response.
C15_Non2xxCarriesBody ==
    (ppc = "ret" /\ presp.status # 0 /\ presp.status \notin 200..299) =>
        /\ ~pret.ok
        /\ pret.err = "non2xx"
        /\ pret.body = Some(presp.body)

\* the requests of one stage made for item i of a leg
C16_Reqs(leg, i, stage) ==
    { j \in 1..Len(net) : net[j].leg = leg /\ net[j].item = i /\ net[j].stage = stage }

\* C16: nothing is retried: for one order at most one submission request is
\* sent, and for one swap each of the chain-id, quote, build, broadcast and
\* watch requests is made at most once, whatever the outcome of any of them.
C16_NoRetry ==
    /\ \A i \in 1..MaxItems : Cardinality(C16_Reqs("cex", i, "order")) <= 1
    /\ \A i \in 1..MaxItems :
          \A stage \in { "chain_id", "quote", "build", "broadcast", "watch" } :
             Cardinality(C16_Reqs("dex", i, stage)) <= 1
    /\ \A j \in 1..Len(net) : net[j].item \in 1..MaxItems

\* C16 witness: a dispatch has ended in which an order submission failed and
\* the build request of a swap failed
C16_Witness ==
    /\ hpc = "done"
    /\ \E j \in OrderReqs : ~net[j].ok
    /\ \E j \in StageReqs("build") : ~net[j].ok

\* item i of a leg has completed: its result or its error has been returned
C17_Completed(leg, i) ==
    \E r \in 1..Len(results) : results[r].leg = leg /\ results[r].item = i

\* C17: the items of one leg are executed one after the other in list order:
\* whenever a request of an item has been sent, every earlier item of the same
\* leg has completed, and the requests of a leg are in the order of its items.
C17_Sequential ==
    /\ \A j \in 1..Len(net) :
          \A i \in 1..(net[j].item - 1) : C17_Completed(net[j].leg, i)
    /\ \A j, k \in 1..Len(net) :
          (j < k /\ net[j].leg = net[k].leg) => net[j].item <= net[k].item
    /\ hpc = "cex_call" => \A j \in OrderReqs : net[j].item <= ci
    /\ hpc = "dex_call" => \A j \in 1..Len(net) : net[j].leg = "dex" => net[j].item <= si

\* C17 witness: three swaps of one strategy have each had a quote request sent
C17_Witness ==
    \A i \in 1..3 : \E j \in StageReqs("quote") : net[j].item = i

\* C18: the broadcast stage never hangs: whatever becomes of a broadcast
\* transaction, the wait for its inclusion can end and return a result to the
\* swap attempt (the inclusion, an error, or a timeout reported as a failure).
C18_BroadcastNeverHangs ==
    (hpc = "dex_call" /\ qpc = "watch" /\ swaps[si].amount.mant # << >>) =>
        ENABLED QWatch

\* C19: in every swap the chain of the quote request, the chain of the build
\* request and the chain of the provider that broadcasts the transaction are
\* the same, which is the chain the provider reported for that swap.
C19_SameChain ==
    \A j, k \in StageReqs("chain_id") \cup StageReqs("quote") \cup StageReqs("build")
                  \cup StageReqs("broadcast") :
       net[j].item = net[k].item => net[j].chain = net[k].chain

\* C19 witness: a swap has been quoted, built and broadcast
C19_Witness ==
    \E j \in StageReqs("quote") : \E k \in StageReqs("build") :
       \E l \in StageReqs("broadcast") :
          /\ net[j].item = net[k].item /\ net[k].item = net[l].item
          /\ net[l].ok

\* the decimals of a token of the chain token table, spelled out
C20_Decimals(token) == IF to_lowercase(token) = T_usdc THEN 6 ELSE 3

\* the swaps of the strategy that are executed, as written in the strategy
C20_Written == SelectSeq(strategy.swaps, HasSwapFields)

\* floor(amount * 10^decimals) of the decimal number an amount text denotes
C20_Floor(text, decimals) ==
    LET d == from_str_exact(text).val
    IN  (d.m * Pow10(decimals)) \div Pow10(d.e)

\* C20: the base-unit amount of every quote request of a swap with a positive
\* decimal amount is floor(amount * 10^decimals of token-in), computed on the
\* decimal number written in the strategy; 1.1 with 6 decimals gives 1100000.
C20_AmountIsExactFloor ==
    \A j \in StageReqs("quote") :
       LET w == C20_Written[net[j].item]
       IN  (/\ from_str_exact(w.amount.val).some
            /\ ~from_str_exact(w.amount.val).val.neg
            /\ from_str_exact(w.amount.val).val.m > 0) =>
               net[j].payload.amount =
                   C20_Floor(w.amount.val, C20_Decimals(w.token_in.val))

\* two texts are equal up to the case of their letters
C21_SameIgnoringCase(a1, a2) ==
    /\ Len(a1) = Len(a2)
    /\ \A i \in 1..Len(a1) :
          a1[i] = a2[i] \/ UpperChar(a1[i]) = a2[i] \/ a1[i] = UpperChar(a2[i])

\* the entry of the chain metadata for a symbol, whatever its case: the
\* lower-cased address and the decimals
C21_Pair(token) ==
    IF C21_SameIgnoringCase(token, T_usdc) THEN Some(<< << "0","x","a","1" >>, 6 >>)
    ELSE IF C21_SameIgnoringCase(token, T_eth) THEN Some(<< << "0","x","b","2" >>, 3 >>)
    ELSE None

\* C21: the lookup in the chain token table is case-insensitive: when both
\* tokens of a swap are listed in the chain metadata under some case variant of
\* their symbols, the lookup step resolves token-in to the listed (address,
\* decimals) pair and token-out to its listed address, and does not fail.
C21_CaseInsensitiveLookup ==
    [][(/\ qpc = "lookup"
        /\ C21_Pair(q.from_token).some
        /\ C21_Pair(q.to_token).some) =>
           /\ qpc' = "convert"
           /\ << q'.src_token_addr, q'.src_token_decimals >> = C21_Pair(q.from_token).val
           /\ q'.dst_token_addr = C21_Pair(q.to_token).val[1]]_vars

\* C21 witness: the tokens "uSdC" and "eTh" have been looked up and resolved
C21_Witness ==
    /\ qpc = "convert"
    /\ q.from_token = << "u","S","d","C" >>
    /\ q.to_token = << "e","T","h" >>
    /\ q.src_token_addr = << "0","x","a","1" >>
    /\ q.src_token_decimals = 6
    /\ q.dst_token_addr = << "0","x","b","2" >>

\* C22: the pair place_binance_order submits is the upper-cased symbol of the
\* call followed by "USDT", whatever the case of the symbol: every case variant
\* of "eth" gives "ETHUSDT". Stated of the parameters once built and of every
\* request sent.
C22_PairIsUpperUsdt ==
    LET pair == IF C21_SameIgnoringCase(pargs.symbol, T_eth)
                THEN << "E","T","H","U","S","D","T" >>
                ELSE << "B","T","C","U","S","D","T" >>
    IN  /\ ppc \in {"sign", "send", "ret"} => preq.symbol = pair
        /\ \A j \in OrderReqs : net[j].req.symbol = pair

\* C22 witness: a request was sent for the symbol "eTh"
C22_Witness ==
    /\ pargs.symbol = << "e","T","h" >>
    /\ \E j \in OrderReqs : net[j].req.symbol = << "E","T","H","U","S","D","T" >>

\* the calls of key.sign that succeeded
C23_Signed == { c \in 1..Len(signed) : signed[c].out.ok }

C24_TemporaryVariants ==
    { "RateLimited", "Unavailable" } \cup (IF http_feature THEN { "Http" } ELSE { })

\* C24: ExchangeError::is_temporary is true for RateLimited and Unavailable (and
\* Http when that feature is on) and false for every other variant, and
\* RestError::is_temporary is true only for an Exchange error whose inner error
\* is temporary
C24_TemporaryClassification ==
    outcome.op = "is_temporary" =>
        IF error.type = "ExchangeError"
        THEN outcome.val <=> error.variant \in C24_TemporaryVariants
        ELSE outcome.val <=> (/\ error.variant = "Exchange"
                              /\ error.inner.variant \in C24_TemporaryVariants)

\* a RestError that wraps an unavailable venue was classified as temporary
C24_Witness ==
    /\ outcome.op = "is_temporary"
    /\ error.type = "RestError"
    /\ error.variant = "Exchange" /\ error.inner.variant = "Unavailable"
    /\ outcome.val

\* the error left after taking n Layers off an error, where a boxed error of
\* another type counts as Other with the same text
RECURSIVE C30_Peel(_, _)
C30_Peel(wrapped, n) ==
    IF n = 0 \/ wrapped.variant # "Layer" THEN wrapped
    ELSE IF wrapped.inner.type = "ExchangeError" THEN C30_Peel(wrapped.inner, n - 1)
    ELSE Err("ExchangeError", "Other", wrapped.inner.msg, NoError)

\* the number of Layer wrappers around an error
C30_Depth(wrapped) ==
    CHOOSE n \in 0..(MaxLayers + 1) :
        /\ C30_Peel(wrapped, n).variant # "Layer"
        /\ \A k \in 0..(n - 1) : C30_Peel(wrapped, k).variant = "Layer"

\* C30: ExchangeError::flatten never returns a Layer: it returns the innermost
\* error that is not a Layer (Other when the boxed error is not an
\* ExchangeError), returns an error that is not a Layer unchanged, and
\* flattening the result again changes nothing
C30_FlattenIdempotent ==
    /\ outcome.op \in { "flatten", "flatten_twice" } =>
          /\ outcome.val.variant # "Layer"
          /\ outcome.val = C30_Peel(error, C30_Depth(error))
          /\ error.variant # "Layer" => outcome.val = error
    /\ outcome.op = "flatten_twice" => outcome.val = outcome.once

\* an error inside two Layers was flattened twice
C30_Witness ==
    /\ outcome.op = "flatten_twice"
    /\ error.variant = "Layer" /\ error.inner.variant = "Layer"
    /\ error.inner.inner.variant = "RateLimited"
    /\ outcome.val = error.inner.inner

\* a decimal cut off toward zero after p decimal places
C25_normalize(dec, p) ==
    IF dec.e <= p THEN dec
    ELSE [neg |-> dec.neg, m |-> dec.m \div Pow10(dec.e - p), e |-> p]

\* C25: every quantity and price submitted to the venue is truncated toward zero
\* to the venue's declared decimal precision, so normalizing it again returns
\* it unchanged
C25_SubmittedAtVenuePrecision ==
    \A j \in OrderReqs :
        /\ net[j].req.quantity.some =>
              net[j].req.quantity.val
                 = C25_normalize(net[j].req.quantity.val, VenueQuantityPrecision)
        /\ net[j].req.price.some =>
              net[j].req.price.val
                 = C25_normalize(net[j].req.price.val, VenuePricePrecision)

\* the strategy order behind a request to the venue
C26_OrderOf(j) == SelectSeq(strategy.orders, HasValidSide)[net[j].item]

\* two strategy orders that agree on token, side, amount and price
C26_SameIntent(o1, o2) ==
    /\ o1.token = o2.token /\ o1.side = o2.side
    /\ o1.amount = o2.amount /\ o1.price = o2.price

\* C26: the order kind is never caller-declared: two strategy orders that agree
\* on token, side, amount and price lead to identical requests to the venue,
\* whatever type, timeInForce, reduceOnly and closePosition they declare
C26_KindNotDeclared ==
    \A j1 \in OrderReqs : \A j2 \in OrderReqs :
        C26_SameIntent(C26_OrderOf(j1), C26_OrderOf(j2)) => net[j1].req = net[j2].req

\* two orders with a price were submitted, one declaring nothing and one
\* declaring type, timeInForce, reduceOnly and closePosition
C26_Witness ==
    /\ Len(net) = 2 /\ OrderReqs = { 1, 2 }
    /\ C26_SameIntent(C26_OrderOf(1), C26_OrderOf(2))
    /\ C26_OrderOf(1).price.some
    /\ ~C26_OrderOf(1).type.some /\ ~C26_OrderOf(1).timeInForce.some
    /\ ~C26_OrderOf(1).reduceOnly.some /\ ~C26_OrderOf(1).closePosition.some
    /\ C26_OrderOf(2).type.some /\ C26_OrderOf(2).timeInForce.some
    /\ C26_OrderOf(2).reduceOnly.some /\ C26_OrderOf(2).closePosition.some
    /\ net[1].req = net[2].req

\* C27: if signing the order parameters fails, place_binance_order returns an
\* error at once and no HTTP request of that call is sent to the venue
C27_SignFailureSendsNothing ==
    (ppc = "ret" /\ ~pret.ok /\ pret.err = "sign") =>
        /\ presp = NoResp
        /\ \A j \in OrderReqs : net[j].item # ci

\* the second order of a strategy failed to sign after the first had been sent
C27_Witness ==
    /\ hpc = "cex_call" /\ ppc = "ret" /\ ~pret.ok /\ pret.err = "sign"
    /\ ci = 2
    /\ OrderReqs = { 1 } /\ net[1].item = 1

\* C28: in the execute handler, if at least one of the two portfolios was
\* retrieved the request proceeds to strategy generation, and a 404 response is
\* returned only when both portfolio fetches failed
C28_OnePortfolioSuffices ==
    [][ hpc = "portfolio_check" =>
          IF binance_account_info.some \/ base_chain_portfolio.some
          THEN hpc' = "cex_start" /\ httpStatus' = httpStatus
          ELSE hpc' = "done" /\ httpStatus' = HttpNotFound ]_vars

\* C29: the two legs are never interleaved: every CEX order submission of a
\* strategy precedes every request of its DEX leg, and the DEX leg runs only
\* after process_binance_place_order has returned
C29_LegsNotInterleaved ==
    /\ \A j1 \in 1..Len(net) : \A j2 \in 1..Len(net) :
          (net[j1].leg = "cex" /\ net[j2].leg = "dex") => j1 < j2
    /\ (hpc \in { "dex_loop", "dex_call" } \/ \E j \in 1..Len(net) : net[j].leg = "dex")
          => (cexLeg # "none" /\ ppc = "idle")

\* two orders were submitted and then a swap was quoted
C29_Witness ==
    /\ Len(net) >= 4
    /\ net[1].leg = "cex" /\ net[2].leg = "cex"
    /\ net[Len(net)].leg = "dex" /\ net[Len(net)].stage = "quote"
    /\ cexLeg = "Ok"

=============================================================================
